---- MODULE Spec2Model ----
(***************************************************************************)
(* biblio_ohp.py: the search-and-verify pipeline of main().                *)
(*                                                                         *)
(* One run of main(year, keywords, api_token, bibstems) is modelled as a   *)
(* sequential state machine.  The external search service is the           *)
(* environment: every requests.get either raises (no response at all) or   *)
(* returns a response with a status code and a body.  Python dicts are     *)
(* functions whose DOMAIN is the set of keys present.                      *)
(***************************************************************************)
EXTENDS Integers, Sequences, FiniteSets, TLC

VARIABLES
    pc,                     \* position in main / verify_keywords_in_article
    keywords,               \* main's argument `keywords`
    search_response,        \* fetch_all_articles: `response`
    articles,               \* main: `articles`
    aidx,                   \* main: position of `for article in articles`
    bibcode,                \* main: `bibcode`
    found_keywords,         \* main: `found_keywords`
    kidx,                   \* verify: position of `for keyword in keywords`
    verify_found_keywords,  \* verify: local `found_keywords`
    response,               \* verify: `response`
    verify_responses,       \* responses received during the current verify call
    trace,                  \* external calls made so far, in order
    raised,                 \* exception that left main, "None" while none has
    report                  \* what save_articles_to_html was given and rendered

vars == <<pc, keywords, search_response, articles, aidx, bibcode, found_keywords,
          kidx, verify_found_keywords, response, verify_responses, trace,
          raised, report>>

----------------------------------------------------------------------------
(* Bounds of the model *)

MaxKeywords == 2
MaxArticles == 2

(* Program constants *)

HTTP_OK == 200

FALLBACK == "OHP"

KeywordUniverse == {"OHP", "SOPHIE", "ELODIE"}

StatusCodes == {HTTP_OK, 500}

INSTRUMENT_TELESCOPE_MAP ==
    [ELODIE |-> "T193", GHASP |-> "T193", MISTRAL |-> "T193", SOPHIE |-> "T193",
     CARELEC |-> "T193", AURELIE |-> "T152", CORAVEL |-> "T100 Suisse",
     OHP |-> "Autre telescope"]

----------------------------------------------------------------------------
(* Helpers *)

\* dict.get(key, default)
Get(d, k, default) == IF k \in DOMAIN d THEN d[k] ELSE default

\* an empty dict / a dict holding only keys the program never reads
NoDict == [other |-> 0]

\* d[key] = value  (adds the key when absent)
SetItem(d, k, v) == [x \in DOMAIN d \cup {k} |-> IF x = k THEN v ELSE d[x]]

SeqsUpTo(S, n) == UNION {[1..m -> S] : m \in 0..n}

ToSet(s) == {s[i] : i \in 1..Len(s)}

IsPrefix(s, t) == Len(s) <= Len(t) /\ \A i \in 1..Len(s) : s[i] = t[i]

NoDuplicates(s) == \A i, j \in 1..Len(s) : s[i] = s[j] => i = j

----------------------------------------------------------------------------
(* The environment: what the search service can answer *)

\* an article of response.docs: article number i, with or without "bibcode"
Doc(i, has_bibcode) ==
    IF has_bibcode THEN [title |-> "T", bibcode |-> i] ELSE [title |-> "T"]

DocLists ==
    UNION {{[i \in 1..n |-> Doc(i, has[i])] : has \in [1..n -> BOOLEAN]} :
           n \in 0..MaxArticles}

\* JSON bodies of the bulk search: docs present, docs missing, response missing
SearchJson ==
    {[response |-> [docs |-> d]] : d \in DocLists}
        \cup {[response |-> [numFound |-> 0]], [responseHeader |-> 0]}

\* JSON bodies of a confirmation query: numFound present, numFound missing
ConfirmJson ==
    {[response |-> [numFound |-> n]] : n \in {0, 1}}
        \cup {[response |-> [docs |-> <<>>]]}

\* a response: status code, whether the body parses as JSON, and the JSON
Response(s, is_json, j) == [status_code |-> s, is_json |-> is_json, json |-> j]

\* success with any body; failure with an error page or with a JSON body
Responses(jsons, failure_json) ==
    {Response(HTTP_OK, TRUE, j) : j \in jsons}
        \cup {Response(s, FALSE, NoDict) : s \in StatusCodes}
        \cup {Response(s, TRUE, failure_json) : s \in StatusCodes \ {HTTP_OK}}

SearchResponses ==
    Responses(SearchJson, [response |-> [docs |-> <<Doc(1, TRUE)>>]])

ConfirmResponses ==
    Responses(ConfirmJson, [response |-> [numFound |-> 1]])

NoResponse == [status_code |-> 0, is_json |-> FALSE, json |-> NoDict]

Event(op, b, kw) == [op |-> op, bibcode |-> b, keyword |-> kw]

----------------------------------------------------------------------------
(* Pure parts of the code *)

\* fetch_all_articles with the status test of line 52 left out
fetch_all_articles_no_status_test(r) ==
    IF ~r.is_json
        THEN [exc |-> "ValueError", ret |-> <<>>]
    ELSE [exc |-> "None",
          ret |-> Get(Get(r.json, "response", NoDict), "docs", <<>>)]

\* fetch_all_articles, lines 52-58: what it returns for response r, or raises
fetch_all_articles(r) ==
    IF r.status_code # HTTP_OK
        THEN [exc |-> "None", ret |-> <<>>]
    ELSE IF ~r.is_json
        THEN [exc |-> "ValueError", ret |-> <<>>]
    ELSE [exc |-> "None",
          ret |-> Get(Get(r.json, "response", NoDict), "docs", <<>>)]

\* line 88 with the status test left out: numFound alone decides
keyword_found_no_status_test(r) ==
    IF ~r.is_json
        THEN [exc |-> "ValueError", ret |-> FALSE]
    ELSE [exc |-> "None",
          ret |-> Get(Get(r.json, "response", NoDict), "numFound", 0) > 0]

\* verify_keywords_in_article, line 88: the condition of the `if`
\* (`and` short-circuits: response.json() is only called on status 200)
keyword_found(r) ==
    IF r.status_code # HTTP_OK
        THEN [exc |-> "None", ret |-> FALSE]
    ELSE IF ~r.is_json
        THEN [exc |-> "ValueError", ret |-> FALSE]
    ELSE [exc |-> "None",
          ret |-> Get(Get(r.json, "response", NoDict), "numFound", 0) > 0]

\* lines 217-221 with the filter of line 221 left out
InstrumentsOfKeepFallback(found) ==
    IF found # <<>>
        THEN IF FALLBACK \in ToSet(found) /\ Len(found) = 1
                 THEN <<FALLBACK>>
                 ELSE found
        ELSE <<>>

\* main, lines 217-221: the list built from found_keywords
InstrumentsOf(found) ==
    IF found # <<>>
        THEN IF FALLBACK \in ToSet(found) /\ Len(found) = 1
                 THEN <<FALLBACK>>
                 ELSE SelectSeq(found, LAMBDA kw : kw # FALLBACK)
        ELSE <<>>

\* lines 215-221 with line 215 moved under `if found_keywords:`
classify_article_only_when_found(article, found) ==
    IF found # <<>>
        THEN SetItem(article, "instruments", InstrumentsOf(found))
        ELSE article

\* main, lines 215-221: the article after classification
classify_article(article, found) ==
    SetItem(article, "instruments", InstrumentsOf(found))

\* save_articles_to_html, line 158: telescope / instrument pairs of an article
instruments_str(article) ==
    LET instruments == Get(article, "instruments", <<>>)
    IN  [i \in 1..Len(instruments) |->
            <<Get(INSTRUMENT_TELESCOPE_MAP, instruments[i], "Unknown"),
              instruments[i]>>]

----------------------------------------------------------------------------
(* Initial state: main has been called with some keyword list *)

Init ==
    /\ pc = "fetch"
    /\ keywords \in SeqsUpTo(KeywordUniverse, MaxKeywords)
    /\ search_response = NoResponse
    /\ articles = <<>>
    /\ aidx = 0
    /\ bibcode = 0
    /\ found_keywords = <<>>
    /\ kidx = 0
    /\ verify_found_keywords = <<>>
    /\ response = NoResponse
    /\ verify_responses = <<>>
    /\ trace = <<>>
    /\ raised = "None"
    /\ report = [rendered |-> FALSE, articles |-> <<>>, total_articles |-> 0,
                 lines |-> <<>>]

\* an exception nobody catches leaves main
Raise(exc) ==
    /\ pc' = "raised"
    /\ raised' = exc

----------------------------------------------------------------------------
(* Steps of main *)

\* line 209: articles = fetch_all_articles(...)  (lines 46-58)
FetchAllArticles ==
    /\ pc = "fetch"
    /\ trace' = Append(trace, Event("search", 0, ""))
    /\ \/ /\ Raise("ConnectionError")          \* requests.get raises, line 46
          /\ UNCHANGED <<search_response, articles>>
       \/ \E r \in SearchResponses :
            /\ search_response' = r
            /\ IF fetch_all_articles(r).exc # "None"
                   THEN /\ Raise(fetch_all_articles(r).exc)
                        /\ UNCHANGED articles
                   ELSE /\ articles' = fetch_all_articles(r).ret
                        /\ pc' = "for_article"
                        /\ UNCHANGED raised
    /\ UNCHANGED <<keywords, aidx, bibcode, found_keywords, kidx,
                   verify_found_keywords, response, verify_responses, report>>

\* lines 212-214 and 72-76: next article, its bibcode, entry of verify
ForArticle ==
    /\ pc = "for_article"
    /\ IF aidx = Len(articles)
           THEN /\ pc' = "render"
                /\ UNCHANGED <<aidx, bibcode, kidx, verify_found_keywords,
                               verify_responses, raised>>
           ELSE /\ aidx' = aidx + 1
                /\ IF "bibcode" \in DOMAIN articles[aidx + 1]
                       THEN /\ bibcode' = articles[aidx + 1]["bibcode"]
                            /\ verify_found_keywords' = <<>>
                            /\ verify_responses' = <<>>
                            /\ kidx' = 0
                            /\ pc' = "for_keyword"
                            /\ UNCHANGED raised
                       ELSE /\ Raise("KeyError")             \* line 213
                            /\ UNCHANGED <<bibcode, kidx, verify_found_keywords,
                                           verify_responses>>
    /\ UNCHANGED <<keywords, search_response, articles, found_keywords,
                   response, trace, report>>

\* line 78 with a `break` after the first keyword found
ForKeywordBreakOnFound ==
    /\ pc = "for_keyword"
    /\ IF kidx = Len(keywords) \/ verify_found_keywords # <<>>
           THEN /\ found_keywords' = verify_found_keywords
                /\ pc' = "classify"
                /\ UNCHANGED kidx
           ELSE /\ kidx' = kidx + 1
                /\ pc' = "get"
                /\ UNCHANGED found_keywords
    /\ UNCHANGED <<keywords, search_response, articles, aidx, bibcode,
                   verify_found_keywords, response, verify_responses, trace,
                   raised, report>>

\* line 78: next keyword, or lines 99-100 and 214: return to main
ForKeyword ==
    /\ pc = "for_keyword"
    /\ IF kidx = Len(keywords)
           THEN /\ found_keywords' = verify_found_keywords
                /\ pc' = "classify"
                /\ UNCHANGED kidx
           ELSE /\ kidx' = kidx + 1
                /\ pc' = "get"
                /\ UNCHANGED found_keywords
    /\ UNCHANGED <<keywords, search_response, articles, aidx, bibcode,
                   verify_found_keywords, response, verify_responses, trace,
                   raised, report>>

\* lines 80-85: the confirmation request for keywords[kidx]
RequestsGet ==
    /\ pc = "get"
    /\ trace' = Append(trace, Event("confirm", bibcode, keywords[kidx]))
    /\ \/ /\ Raise("ConnectionError")          \* requests.get raises, line 81
          /\ UNCHANGED <<response, verify_responses>>
       \/ \E r \in ConfirmResponses :
            /\ response' = r
            /\ verify_responses' = Append(verify_responses, r)
            /\ pc' = "sleep"
            /\ UNCHANGED raised
    /\ UNCHANGED <<keywords, search_response, articles, aidx, bibcode,
                   found_keywords, kidx, verify_found_keywords, report>>

\* line 86 left out: no delay after the request
SleepOmitted ==
    /\ pc = "sleep"
    /\ pc' = "test"
    /\ UNCHANGED <<keywords, search_response, articles, aidx, bibcode,
                   found_keywords, kidx, verify_found_keywords, response,
                   verify_responses, trace, raised, report>>

\* line 86: time.sleep(1)
Sleep ==
    /\ pc = "sleep"
    /\ trace' = Append(trace, Event("sleep", 0, ""))
    /\ pc' = "test"
    /\ UNCHANGED <<keywords, search_response, articles, aidx, bibcode,
                   found_keywords, kidx, verify_found_keywords, response,
                   verify_responses, raised, report>>

\* lines 88-89: keep the keyword when its response confirms it
TestResponse ==
    /\ pc = "test"
    /\ IF keyword_found(response).exc # "None"
           THEN /\ Raise(keyword_found(response).exc)
                /\ UNCHANGED verify_found_keywords
           ELSE /\ verify_found_keywords' =
                       IF keyword_found(response).ret
                           THEN Append(verify_found_keywords, keywords[kidx])
                           ELSE verify_found_keywords
                /\ pc' = "for_keyword"
                /\ UNCHANGED raised
    /\ UNCHANGED <<keywords, search_response, articles, aidx, bibcode,
                   found_keywords, kidx, response, verify_responses, trace,
                   report>>

\* lines 215-221: attach the instrument list to the current article
Classify ==
    /\ pc = "classify"
    /\ articles' = [articles EXCEPT
                        ![aidx] = classify_article(@, found_keywords)]
    /\ pc' = "for_article"
    /\ UNCHANGED <<keywords, search_response, aidx, bibcode, found_keywords,
                   kidx, verify_found_keywords, response, verify_responses,
                   trace, raised, report>>

\* line 223: save_articles_to_html(articles, year)  (lines 124-135, 158)
SaveArticlesToHtml ==
    /\ pc = "render"
    /\ trace' = Append(trace, Event("render", 0, ""))
    /\ report' = [rendered |-> TRUE,
                  articles |-> articles,
                  total_articles |-> Len(articles),
                  lines |-> [i \in 1..Len(articles) |-> instruments_str(articles[i])]]
    /\ pc' = "done"
    /\ UNCHANGED <<keywords, search_response, articles, aidx, bibcode,
                   found_keywords, kidx, verify_found_keywords, response,
                   verify_responses, raised>>

Next ==
    \/ FetchAllArticles
    \/ ForArticle
    \/ ForKeyword
    \/ RequestsGet
    \/ Sleep
    \/ TestResponse
    \/ Classify
    \/ SaveArticlesToHtml

Spec == Init /\ [][Next]_vars

----------------------------------------------------------------------------
(* Vocabulary of the properties *)

\* article i carries an instrument list
Classified(i) == "instruments" \in DOMAIN articles[i]

\* main's found_keywords is the verification result of article aidx, and the
\* instrument list of that article has been attached
CurrentClassified ==
    /\ aidx \in 1..Len(articles)
    /\ Classified(aidx)

\* the response confirms the keyword: success status and numFound > 0
Confirms(r) ==
    /\ r.status_code = HTTP_OK
    /\ r.is_json
    /\ "response" \in DOMAIN r.json
    /\ "numFound" \in DOMAIN r.json["response"]
    /\ r.json["response"]["numFound"] > 0

\* the first n input keywords whose own response confirms them, in input order
RECURSIVE ConfirmedAmong(_)
ConfirmedAmong(n) ==
    IF n = 0 THEN <<>>
    ELSE IF Confirms(verify_responses[n])
        THEN Append(ConfirmedAmong(n - 1), keywords[n])
        ELSE ConfirmedAmong(n - 1)

\* in the current verify call, the responses already tested by line 88
Tested ==
    IF pc \in {"sleep", "test"}
        THEN Len(verify_responses) - 1
        ELSE Len(verify_responses)

InVerify == pc \in {"for_keyword", "get", "sleep", "test"}

\* the network requests and the rendering call made so far (delays left out)
Calls == SelectSeq(trace, LAMBDA e : e.op # "sleep")

ConfirmPositions == {i \in 1..Len(trace) : trace[i].op = "confirm"}

\* the calls of a complete run: the search, one confirmation per article and
\* keyword position (article-major, keyword-minor), then the rendering
ExpectedCalls ==
    LET n == Len(articles)
        m == Len(keywords)
    IN  [p \in 1..(n * m + 2) |->
            IF p = 1 THEN Event("search", 0, "")
            ELSE IF p = n * m + 2 THEN Event("render", 0, "")
            ELSE Event("confirm",
                       Get(articles[((p - 2) \div m) + 1], "bibcode", 0),
                       keywords[((p - 2) % m) + 1])]

\* the bulk search was answered with a non-success status
SearchFailedStatus ==
    /\ search_response # NoResponse
    /\ search_response.status_code # HTTP_OK

----------------------------------------------------------------------------
(* Properties *)

\* C1: for any supplied keyword list and any outcomes of the confirmation
\* requests, the instrument list attached to an article contains no keyword
\* more than once.
C1_NoDuplicateInstruments ==
    \A i \in 1..Len(articles) :
        Classified(i) => NoDuplicates(articles[i]["instruments"])

\* C2: if "OHP" is the only keyword confirmed for an article, the article's
\* instrument list is exactly <<"OHP">>.
C2_OnlyFallbackKept ==
    (CurrentClassified /\ ToSet(found_keywords) = {FALLBACK})
        => articles[aidx]["instruments"] = <<FALLBACK>>

\* C3: the instrument list never holds a keyword that was not confirmed; when
\* "OHP" is confirmed together with another keyword the list does not contain
\* "OHP" and holds exactly the other confirmed keywords; when no keyword is
\* confirmed the list is empty.
C3_FallbackDropped ==
    CurrentClassified =>
        LET instruments == ToSet(articles[aidx]["instruments"])
            confirmed   == ToSet(found_keywords)
        IN  /\ instruments \subseteq confirmed
            /\ (FALLBACK \in confirmed /\ confirmed # {FALLBACK})
                   => /\ FALLBACK \notin instruments
                      /\ instruments = confirmed \ {FALLBACK}
            /\ confirmed = {} => articles[aidx]["instruments"] = <<>>

C3_Witness ==
    /\ CurrentClassified
    /\ ToSet(found_keywords) = {FALLBACK, "SOPHIE"}
    /\ articles[aidx]["instruments"] = <<"SOPHIE">>

\* C4: a bulk search answered with a non-success status raises nothing and
\* yields no article; no confirmation request is issued; the run goes on to
\* the rendering step, which is given an empty article sequence (total 0).
C4_SearchFailureRendersEmpty ==
    SearchFailedStatus =>
        /\ raised = "None"
        /\ articles = <<>>
        /\ ConfirmPositions = {}
        /\ \/ pc \in {"for_article", "render"} /\ ENABLED Next
           \/ /\ pc = "done"
              /\ report.rendered
              /\ report.articles = <<>>
              /\ report.total_articles = 0

C4_Witness ==
    /\ SearchFailedStatus
    /\ pc = "done"
    /\ report.rendered
    /\ report.total_articles = 0

\* C5: a transport failure (a request that yields no response) is never
\* fatal: no error leaves fetch_all_articles or verify_keywords_in_article.
C5_TransportFailureAbsorbed ==
    ~(pc = "raised" /\ raised = "ConnectionError")

\* C6: a success-status response with a malformed body (unparseable JSON, or
\* an article without its identifier) degrades like a failure and never
\* crashes the run.
C6_MalformedBodyAbsorbed ==
    ~(pc = "raised" /\ raised \in {"ValueError", "KeyError"})

\* C7: in verify_keywords_in_article a non-success status only leaves that
\* keyword unconfirmed: it raises nothing, the remaining keywords are still
\* requested, and the collection built (and returned) is exactly the input
\* keywords whose own response was a success with numFound > 0, in input
\* order.
C7_VerifyReturnsConfirmed ==
    /\ InVerify => verify_found_keywords = ConfirmedAmong(Tested)
    /\ pc = "classify"
           => /\ Len(verify_responses) = Len(keywords)
              /\ found_keywords = ConfirmedAmong(Len(keywords))
    /\ (pc = "raised" /\ raised = "ValueError" /\ ConfirmPositions # {})
           => response.status_code = HTTP_OK

C7_Witness ==
    /\ pc = "classify"
    /\ Len(keywords) >= 2
    /\ verify_responses[1].status_code # HTTP_OK
    /\ found_keywords = <<keywords[2]>>

\* C8: between any two confirmation requests of a run (same article or
\* successive articles) at least one pacing delay elapses.
C8_PacingBetweenRequests ==
    \A i, j \in ConfirmPositions :
        i < j => \E k \in (i + 1)..(j - 1) : trace[k].op = "sleep"

C8_Witness ==
    \E i, j \in ConfirmPositions :
        /\ j = i + 2
        /\ trace[i].bibcode # trace[j].bibcode

\* C9: every article given to the rendering step has a defined instrument
\* list, and an article has one only once all its confirmation requests were
\* made and answered.
C9_InstrumentsDefinedAtRender ==
    /\ report.rendered =>
           \A i \in 1..Len(report.articles) :
               "instruments" \in DOMAIN report.articles[i]
    /\ \A i \in 1..Len(articles) :
           Classified(i) =>
               /\ "bibcode" \in DOMAIN articles[i]
               /\ i < aidx \/ (i = aidx /\ pc \in {"for_article", "render", "done"})
               /\ Cardinality({p \in ConfirmPositions :
                                  trace[p].bibcode = articles[i]["bibcode"]})
                      = Len(keywords)

C9_Witness ==
    /\ report.rendered
    /\ Len(report.articles) = 2
    /\ Len(keywords) = 2
    /\ report.articles[1]["instruments"] = <<>>
    /\ report.articles[2]["instruments"] # <<>>

\* C10: the calls of a run are, in order, one bulk search, then one
\* confirmation request per article and keyword position (articles in the
\* order returned, keywords in the order supplied), then the rendering; a
\* finished run has made all of them.
C10_RequestOrder ==
    /\ pc # "fetch" => IsPrefix(Calls, ExpectedCalls)
    /\ pc = "done" => Calls = ExpectedCalls
    /\ pc \in {"render", "done"}
           => Cardinality(ConfirmPositions) = Len(articles) * Len(keywords)

C10_Witness ==
    /\ pc = "done"
    /\ Len(articles) = 2
    /\ Len(keywords) = 2
    /\ keywords[1] # keywords[2]
    /\ Len(Calls) = 6

====
